---------------------------- MODULE Spec2Model ----------------------------
(***************************************************************************)
(* Value function iteration for the deterministic cake eating problem:     *)
(* the script Notebooks/DynProgr/dynprog_cake1.py (the fixed-point loop)   *)
(* and the module Notebooks/DynProgr/vfi_funcs.py (the contraction         *)
(* operator get_V_cur_W_pr and the objective get_neg_V_cur).               *)
(*                                                                         *)
(* Numbers.  Cake sizes (W_vec, W_pr, the bounds) are whole multiples of   *)
(* one model unit; the 1e-10 of the code is Eps units.  They are binary    *)
(* floating point numbers with MantBits bits of precision, so that a       *)
(* difference is rounded to nearest (ties to even) as the code's doubles   *)
(* round it.  Values of the value function are IEEE numbers at integer     *)
(* resolution: a finite integer, +inf, -inf or nan, with the IEEE rules    *)
(* for the special values (numpy does not raise on log(0) or 0/0).         *)
(***************************************************************************)
EXTENDS Integers, Sequences, FiniteSets, TLC

(* ------------------------------ bounds -------------------------------- *)
\* largest iteration cap maxiter the configurations draw from
MaxIter == 2
\* bits of precision of the floating point format
MantBits == 2
\* the discount factor beta is a multiple of 1/BetaDen
BetaDen == 2

(* ------------------------- program constants -------------------------- *)
\* 1e-10, the margin of the search bounds (W_lb, W_ub), in model units
Eps == 2
\* dist = 10.0 before the loop
DistInit == 10

(* --------------------------- IEEE numbers ----------------------------- *)
Fin(n) == [k |-> "fin", v |-> n]
NaN == [k |-> "nan", v |-> 0]
PosInf == [k |-> "inf", v |-> 1]
NegInf == [k |-> "inf", v |-> -1]
IsFin(a) == a.k = "fin"
IsNaN(a) == a.k = "nan"
Sgn(n) == IF n > 0 THEN 1 ELSE IF n < 0 THEN -1 ELSE 0
Inf(s) == [k |-> "inf", v |-> s]

\* The operations are functions of the numbers: their arguments are values.
Num == [k : {"fin", "inf", "nan"}, v : Int]

NegOf[a \in Num] == IF IsNaN(a) THEN NaN ELSE [k |-> a.k, v |-> 0 - a.v]
Neg(a) == NegOf[a]

AddOf[a \in Num, b \in Num] ==
    IF IsNaN(a) \/ IsNaN(b) THEN NaN
    ELSE IF IsFin(a) /\ IsFin(b) THEN Fin(a.v + b.v)
    ELSE IF IsFin(a) THEN b
    ELSE IF IsFin(b) THEN a
    ELSE IF a.v = b.v THEN a ELSE NaN
Add(a, b) == AddOf[a, b]

Sub(a, b) == AddOf[a, NegOf[b]]

MulOf[a \in Num, b \in Num] ==
    IF IsNaN(a) \/ IsNaN(b) THEN NaN
    ELSE IF IsFin(a) /\ IsFin(b) THEN Fin(a.v * b.v)
    ELSE IF Sgn(a.v) * Sgn(b.v) = 0 THEN NaN
    ELSE Inf(Sgn(a.v) * Sgn(b.v))
Mul(a, b) == MulOf[a, b]

\* a / d for a divisor d >= 0 that is finite (a difference of sorted
\* abscissas): x/0 is +-inf, 0/0 is nan
DivByOf[a \in Num, d \in Int] ==
    IF IsNaN(a) THEN NaN
    ELSE IF d = 0 THEN (IF Sgn(a.v) = 0 THEN NaN ELSE Inf(Sgn(a.v)))
    ELSE IF IsFin(a) THEN Fin(a.v \div d)
    ELSE a
DivBy(a, d) == DivByOf[a, d]

\* the comparisons of Python floats: every comparison with nan is False
Lt(a, b) ==
    /\ ~IsNaN(a) /\ ~IsNaN(b)
    /\ IF IsFin(a) /\ IsFin(b) THEN a.v < b.v
       ELSE IF IsFin(a) THEN b.v > 0
       ELSE IF IsFin(b) THEN a.v < 0
       ELSE a.v < b.v
Ge(a, b) ==
    /\ ~IsNaN(a) /\ ~IsNaN(b)
    /\ IF IsFin(a) /\ IsFin(b) THEN a.v >= b.v
       ELSE IF IsFin(a) THEN b.v < 0
       ELSE IF IsFin(b) THEN a.v > 0
       ELSE a.v >= b.v

(* --------------------- floating point cake sizes ---------------------- *)
RECURSIVE Pow2(_)
Pow2(n) == IF n <= 0 THEN 1 ELSE 2 * Pow2(n - 1)

\* the spacing of the format's numbers around n >= 0
RECURSIVE UlpFrom(_, _)
UlpFrom(n, u) == IF n < u * Pow2(MantBits) THEN u ELSE UlpFrom(n, 2 * u)
Ulp(n) == UlpFrom(n, 1)

\* n >= 0 rounded to the nearest number of the format, ties to the even
\* significand
RoundNat(n) ==
    LET u == Ulp(n)
        lo == (n \div u) * u
        hi == lo + u
    IN  IF n = lo THEN n
        ELSE IF 2 * (n - lo) < u THEN lo
        ELSE IF 2 * (n - lo) > u THEN hi
        ELSE IF (lo \div u) % 2 = 0 THEN lo ELSE hi
RoundOf[n \in Int] == IF n >= 0 THEN RoundNat(n) ELSE 0 - RoundNat(0 - n)
Round(n) == RoundOf[n]

\* a - b as the floating point subtraction computes it
FSub(a, b) == Round(a - b)


(* ------------------------------ numpy --------------------------------- *)
\* np.zeros(n): a new vector of n zeros
np_zeros(n) == [i \in 1..n |-> Fin(0)]

\* np.linspace(start, stop, num) for num >= 0: num evenly spaced points
linspace(start, stop, num) ==
    IF num = 1 THEN <<start>>
    ELSE [i \in 1..num |-> Round(start + ((i - 1) * (stop - start)) \div (num - 1))]

\* np.log at integer resolution: the binary logarithm rounded down;
\* log(0) is -inf and the log of a negative number is nan
RECURSIVE Log2Floor(_)
Log2Floor(c) == IF c <= 1 THEN 0 ELSE 1 + Log2Floor(c \div 2)
np_logOf[c \in Int] ==
    IF c > 0 THEN Fin(Log2Floor(c)) ELSE IF c = 0 THEN NegInf ELSE NaN
np_log(c) == np_logOf[c]

\* the sum of the first n elements of a vector, left to right from 0.0
RECURSIVE SumTo(_, _)
SumTo(vec, n) == IF n = 0 THEN Fin(0) ELSE Add(SumTo(vec, n - 1), vec[n])
np_sum(vec) == SumTo(vec, Len(vec))

(* ------------------------ scipy interp1d ------------------------------ *)
\* interp1d sorts the abscissas (assume_sorted=False) and carries the
\* ordinates along: the indices of xs in increasing order of xs (stable)
RECURSIVE ArgSortFrom(_, _)
ArgSortFrom(xs, left) ==
    IF left = {} THEN <<>>
    ELSE LET m == CHOOSE i \in left :
                    \A j \in left : xs[i] < xs[j] \/ (xs[i] = xs[j] /\ i <= j)
         IN  <<m>> \o ArgSortFrom(xs, left \ {m})
ArgSort(xs) == ArgSortFrom(xs, DOMAIN xs)

\* interp1d(x, y, kind='linear', fill_value='extrapolate') refuses vectors
\* of different lengths and fewer than two points (ValueError)
interp1d_raises(xs, ys) == Len(xs) # Len(ys) \/ Len(xs) < 2

\* the points (x, y) in increasing order of x
SortedPoints(xs, ys) ==
    [i \in 1..Len(xs) |-> [x |-> xs[ArgSort(xs)[i]], y |-> ys[ArgSort(xs)[i]]]]

\* the interpolant over the sorted points pts at x_new: the segment found
\* by searchsorted, clipped to the outer segments (extrapolation), then
\*   slope = (y_hi - y_lo) / (x_hi - x_lo);  y_new = slope*(x_new - x_lo) + y_lo
Interpolate(pts, x_new) ==
    LET below == Cardinality({i \in 1..Len(pts) : pts[i].x < x_new})
        lo == IF below < 1 THEN 1
              ELSE IF below > Len(pts) - 1 THEN Len(pts) - 1 ELSE below
        hi == lo + 1
        dx == pts[hi].x - pts[lo].x
        dy == Sub(pts[hi].y, pts[lo].y)
    IN  IF dx # 0 /\ IsFin(dy)
        THEN Add(Fin((dy.v * (x_new - pts[lo].x)) \div dx), pts[lo].y)
        ELSE Add(Mul(DivBy(dy, dx), Fin(x_new - pts[lo].x)), pts[lo].y)

\* interp1d(xs, ys, ...)(x_new)
interp1d_call(xs, ys, x_new) ==
    CHOOSE y \in {Interpolate(pts, x_new) : pts \in {SortedPoints(xs, ys)}} : TRUE

(* ------------------------- vfi_funcs.py ------------------------------- *)
\* beta * V_next for the discount factor b/BetaDen
BetaTimesOf[b \in Int, v \in Num] ==
    IF IsFin(v) THEN Fin((b * v.v) \div BetaDen) ELSE Mul(Fin(b), v)
BetaTimes(b, v) == BetaTimesOf[b, v]

\* get_neg_V_cur(W_pr, beta, W_cur, W_vec, V_next_vec) raises when
\* building the interpolant does
get_neg_V_cur_raises(Wv, V_next_vec) == interp1d_raises(Wv, V_next_vec)

\* get_neg_V_cur(W_pr, beta, W_cur, W_vec, V_next_vec): the negative of
\* log(W_cur - W_pr) + beta * V(W_pr)
get_neg_V_cur(W_pr, b, W_cur, Wv, V_next_vec) ==
    Neg(Add(np_log(FSub(W_cur, W_pr)),
            BetaTimes(b, interp1d_call(Wv, V_next_vec, W_pr))))

\* the search bounds and the initial guess of one grid point
W_lb_of(W_cur) == Eps
W_ub_of(W_cur) == FSub(W_cur, Eps)
W_pr_init_of(W_cur) == W_cur \div 2

\* the points a bounded search may stop at: anywhere in [lb, ub]; the model
\* draws the two ends and the initial guess
OptPoints(lb, ub, x0) == {x \in {lb, ub, x0} : lb <= x /\ x <= ub}

\* results.fun for the point x the search stopped at.  With lb > ub the
\* search does not start: L-BFGS-B reports no feasible solution and the
\* result holds the initial guess and fun = 0.0
FunAt(x, b, W_cur, Wv, V_next_vec) ==
    IF W_lb_of(W_cur) > W_ub_of(W_cur) THEN Fin(0)
    ELSE get_neg_V_cur(x, b, W_cur, Wv, V_next_vec)

\* Whether minimize(get_neg_V_cur, W_pr_init, args, method='L-BFGS-B',
\* bounds=((W_lb, W_ub),)) can raise: lb > ub is refused by the releases
\* that check the bounds (others report no feasible solution in the
\* result), and an exception of the objective propagates
MinimizeMayRaise(b, W_cur, Wv, V_next_vec) ==
    \/ W_lb_of(W_cur) > W_ub_of(W_cur)
    \/ get_neg_V_cur_raises(Wv, V_next_vec)

\* the results minimize can return: [x, fun, success]
MinimizeResults(b, W_cur, Wv, V_next_vec) ==
    IF W_lb_of(W_cur) > W_ub_of(W_cur)
    THEN {[x |-> W_pr_init_of(W_cur), fun |-> Fin(0), success |-> FALSE]}
    ELSE IF get_neg_V_cur_raises(Wv, V_next_vec)
    THEN {}
    ELSE {[x |-> p.x, fun |-> p.fun, success |-> ok] :
            p \in {[x |-> x, fun |-> FunAt(x, b, W_cur, Wv, V_next_vec)] :
                     x \in OptPoints(W_lb_of(W_cur), W_ub_of(W_cur),
                                     W_pr_init_of(W_cur))},
            ok \in BOOLEAN}

(* ------------------------------ state --------------------------------- *)
\* The script's variables keep their names.  A value function vector is an
\* object of the heap and V_next, V_cur and V hold references to it (0: the
\* name is not bound yet), so that the aliasing of "V_next = V_cur" is part
\* of the model.  V_cur, W_prime, ind and results_W_pr stand for the locals
\* of get_V_cur_W_pr while a sweep runs and for the script's V_cur and
\* W_prime once it has returned (nothing reads the script's pair in
\* between).  todo is the rest of range(W_size); pc is the position: "loop"
\* at the while test, "sweep" in the for loop of get_V_cur_W_pr, "done"
\* after "V = V_cur.copy()", "error" after an uncaught exception (err).
VARIABLES beta, W_size, W_vec, maxiter, tol_VFI,
          heap, V_next, V_cur, W_prime, V,
          iter_VFI, dist, todo, ind, results_W_pr, pc, err

vars == <<beta, W_size, W_vec, maxiter, tol_VFI, heap, V_next, V_cur,
          W_prime, V, iter_VFI, dist, todo, ind, results_W_pr, pc, err>>

config == <<beta, W_size, W_vec, maxiter, tol_VFI>>

(* --------------------------- configurations --------------------------- *)
\* <<W_min, W_max, W_size>>: increasing grids (one whose largest point
\* loses the margin Eps to rounding, one whose smallest point is Eps), a
\* constant grid, a decreasing grid, and grids of one, no and -1 points
GridConfigs ==
    { <<4, 8, 2>>, <<4, 12, 3>>, <<8, 16, 2>>, <<2, 4, 2>>,
      <<16, 16, 2>>, <<8, 4, 2>>, <<4, 4, 1>>, <<4, 4, 0>>, <<4, 4, -1>> }
\* beta = 1/BetaDen is in (0, 1); beta = 0 and beta = BetaDen/BetaDen = 1
\* are not
BetaSet == {0, 1, BetaDen}
\* tol_VFI: 0 is not a tolerance; DistInit + 1 exceeds the initial dist
TolSet == {0, 1, 4, DistInit + 1}
MaxIterSet == 0..MaxIter

(* ------------------------- get_V_cur_W_pr ----------------------------- *)
Range(n) == [i \in 1..n |-> i]

\* (mutant) the sweep writes its result into the vector it was given
NewVCurInPlace(h, vnext, n) == [heap |-> h, ref |-> vnext]

\* "V_cur = np.zeros(W_size)" in a function whose parameter is V_next: a
\* new object of the heap
NewVCur(h, vnext, n) == [heap |-> Append(h, np_zeros(n)), ref |-> Len(h) + 1]

\* (mutant) the value is stored counting the index from the end
StorePointFromEnd(h, vcur, i, r) ==
    [h EXCEPT ![vcur][Len(h[vcur]) + 1 - i] = Neg(r.fun)]

\* (mutant) the value is stored in the slice V_cur[ind:]
StorePointSlice(h, vcur, i, r) ==
    [h EXCEPT ![vcur] = [j \in DOMAIN @ |-> IF j >= i THEN Neg(r.fun) ELSE @[j]]]

\* "V_cur[ind] = -results_W_pr.fun"
StorePoint(h, vcur, i, r) == [h EXCEPT ![vcur][i] = Neg(r.fun)]

(* ------------------------- dynprog_cake1.py --------------------------- *)
\* "V_next = np.zeros(W_size)"
InitialGuess(n) == np_zeros(n)

\* (mutant) the cap is tested with <=
LoopGuardOffByOne == iter_VFI <= maxiter /\ Ge(dist, Fin(tol_VFI))

\* the while test "(iter_VFI < maxiter) and (dist >= tol_VFI)"
LoopGuard == iter_VFI < maxiter /\ Ge(dist, Fin(tol_VFI))

\* (mutant) the distance is taken after "V_next = V_cur"
DistanceAfterAssign(vc, vn) ==
    np_sum([i \in 1..Len(vc) |-> Mul(Sub(vc[i], vc[i]), Sub(vc[i], vc[i]))])

\* "((V_cur - V_next) ** 2).sum()"
Distance(vc, vn) ==
    np_sum([i \in 1..Len(vc) |-> Mul(Sub(vc[i], vn[i]), Sub(vc[i], vn[i]))])

Init ==
    \E g \in GridConfigs, b \in BetaSet, m \in MaxIterSet, t \in TolSet :
        /\ beta = b /\ maxiter = m /\ tol_VFI = t /\ W_size = g[3]
        /\ V_cur = 0 /\ V = 0 /\ W_prime = <<>>
        /\ iter_VFI = 0 /\ dist = Fin(DistInit)
        /\ todo = <<>> /\ ind = 0 /\ results_W_pr = <<>>
        /\ IF g[3] < 0
           THEN \* np.linspace raises ValueError for a negative num
                /\ W_vec = <<>> /\ heap = <<>> /\ V_next = 0
                /\ pc = "error" /\ err = "ValueError"
           ELSE /\ W_vec = linspace(g[1], g[2], g[3])
                /\ heap = <<InitialGuess(g[3])>> /\ V_next = 1
                /\ pc = "loop" /\ err = "none"

\* the while test holds: "iter_VFI += 1" and the call of get_V_cur_W_pr up
\* to the for loop
LoopEnter ==
    /\ pc = "loop" /\ LoopGuard
    /\ iter_VFI' = iter_VFI + 1
    /\ LET a == NewVCur(heap, V_next, Len(W_vec))
       IN  heap' = a.heap /\ V_cur' = a.ref
    /\ W_prime' = [i \in 1..Len(W_vec) |-> 0]
    /\ todo' = Range(Len(W_vec))
    /\ pc' = "sweep"
    /\ UNCHANGED <<config, V_next, V, dist, ind, results_W_pr, err>>

\* one pass of the for loop: minimize returns and its x and fun are stored
PointStore ==
    /\ pc = "sweep" /\ todo # <<>>
    /\ LET i == Head(todo) IN
       \E r \in MinimizeResults(beta, W_vec[i], W_vec, heap[V_next]) :
          /\ ind' = i
          /\ results_W_pr' = <<r>>
          /\ W_prime' = [W_prime EXCEPT ![i] = r.x]
          /\ heap' = StorePoint(heap, V_cur, i, r)
    /\ todo' = Tail(todo)
    /\ UNCHANGED <<config, V_next, V_cur, V, iter_VFI, dist, pc, err>>

\* one pass of the for loop: minimize raises, nothing catches it
PointRaise ==
    /\ pc = "sweep" /\ todo # <<>>
    /\ MinimizeMayRaise(beta, W_vec[Head(todo)], W_vec, heap[V_next])
    /\ ind' = Head(todo)
    /\ pc' = "error" /\ err' = "ValueError"
    /\ UNCHANGED <<config, heap, V_next, V_cur, W_prime, V, iter_VFI, dist,
                   todo, results_W_pr>>

\* the for loop is over: get_V_cur_W_pr returns, then "dist = ..." and
\* "V_next = V_cur"; the vector V_next named before is garbage
SweepReturn ==
    /\ pc = "sweep" /\ todo = <<>>
    /\ dist' = Distance(heap[V_cur], heap[V_next])
    /\ heap' = <<heap[V_cur]>>
    /\ V_next' = 1 /\ V_cur' = 1
    /\ pc' = "loop"
    /\ UNCHANGED <<config, W_prime, V, iter_VFI, todo, ind, results_W_pr, err>>

\* the while test fails: "V = V_cur.copy()"
ExitCopy ==
    /\ pc = "loop" /\ ~LoopGuard /\ V_cur # 0
    /\ heap' = Append(heap, heap[V_cur]) /\ V' = Len(heap) + 1
    /\ pc' = "done"
    /\ UNCHANGED <<config, V_next, V_cur, W_prime, iter_VFI, dist, todo, ind,
                   results_W_pr, err>>

\* the while test fails before any sweep: V_cur is not bound and
\* "V = V_cur.copy()" raises NameError
ExitNameError ==
    /\ pc = "loop" /\ ~LoopGuard /\ V_cur = 0
    /\ pc' = "error" /\ err' = "NameError"
    /\ UNCHANGED <<config, heap, V_next, V_cur, W_prime, V, iter_VFI, dist,
                   todo, ind, results_W_pr>>

Next == LoopEnter \/ PointStore \/ PointRaise \/ SweepReturn \/ ExitCopy
        \/ ExitNameError

Spec == Init /\ [][Next]_vars

\* the interpreter runs the script to its end
FairSpec == Spec /\ WF_vars(Next)

(* ------------------- the sweep under any order ------------------------ *)
\* get_V_cur_W_pr as a function of its inputs and of the points xs the
\* searches return: the for loop from index i on, in the order of range()
RECURSIVE ForLoop(_, _, _, _, _, _, _)
ForLoop(h, vcur, vnext, i, xs, b, Wv) ==
    IF i > Len(Wv) THEN h
    ELSE ForLoop(StorePoint(h, vcur, i,
                            CHOOSE r \in MinimizeResults(b, Wv[i], Wv, h[vnext]) :
                                r.x = xs[i]),
                 vcur, vnext, i + 1, xs, b, Wv)

\* V_cur as get_V_cur_W_pr(input, b, Wv) returns it
get_V_cur(input, xs, b, Wv) ==
    LET a == NewVCur(<<input>>, 1, Len(Wv))
    IN  ForLoop(a.heap, a.ref, 1, 1, xs, b, Wv)[a.ref]

\* the values the input vectors of the sweep are drawn from
InputVals == {Fin(0), Fin(1), Fin(3)}

\* One call of get_V_cur_W_pr on any input V_next, its passes run in any
\* order (workers taking the indices of range(W_size) as they come).  V is
\* a copy of the input the caller keeps.
InitPar ==
    \E g \in {c \in GridConfigs : c[3] >= 0}, b \in BetaSet :
    \E input \in [1..g[3] -> InputVals] :
        /\ beta = b /\ maxiter = 1 /\ tol_VFI = 1 /\ W_size = g[3]
        /\ W_vec = linspace(g[1], g[2], g[3])
        /\ LET a == NewVCur(<<input, input>>, 1, g[3])
           IN  heap = a.heap /\ V_cur = a.ref
        /\ V_next = 1 /\ V = 2
        /\ W_prime = [i \in 1..g[3] |-> 0]
        /\ iter_VFI = 1 /\ dist = Fin(DistInit)
        /\ todo = Range(g[3]) /\ ind = 0 /\ results_W_pr = <<>>
        /\ pc = "sweep" /\ err = "none"

Without(seq, k) == [j \in 1..(Len(seq) - 1) |-> IF j < k THEN seq[j] ELSE seq[j + 1]]

\* a worker takes an index of range(W_size) and runs its search: the
\* result is that worker's results_W_pr
ParMinimize ==
    /\ pc = "sweep"
    /\ \E k \in DOMAIN todo :
       \E r \in MinimizeResults(beta, W_vec[todo[k]], W_vec, heap[V_next]) :
          /\ results_W_pr' =
                Append(results_W_pr, [ind |-> todo[k], x |-> r.x,
                                      fun |-> r.fun, success |-> r.success])
          /\ todo' = Without(todo, k)
    /\ UNCHANGED <<config, heap, V_next, V_cur, W_prime, V, iter_VFI, dist,
                   ind, pc, err>>

\* a worker stores its result
ParPointStore ==
    /\ pc = "sweep"
    /\ \E k \in DOMAIN results_W_pr :
       LET r == results_W_pr[k] IN
          /\ ind' = r.ind
          /\ W_prime' = [W_prime EXCEPT ![r.ind] = r.x]
          /\ heap' = StorePoint(heap, V_cur, r.ind, r)
          /\ results_W_pr' = Without(results_W_pr, k)
    /\ UNCHANGED <<config, V_next, V_cur, V, iter_VFI, dist, todo, pc, err>>

\* a worker's search raises
ParPointRaise ==
    /\ pc = "sweep"
    /\ \E k \in DOMAIN todo :
          /\ MinimizeMayRaise(beta, W_vec[todo[k]], W_vec, heap[V_next])
          /\ ind' = todo[k]
    /\ pc' = "error" /\ err' = "ValueError"
    /\ UNCHANGED <<config, heap, V_next, V_cur, W_prime, V, iter_VFI, dist,
                   todo, results_W_pr>>

NextPar == ParMinimize \/ ParPointStore \/ ParPointRaise

SpecPar == InitPar /\ [][NextPar]_vars

(* ------------------------------ claims -------------------------------- *)
Terminated == pc \in {"done", "error"}

StrictlyIncreasing(xs) == \A i \in 1..(Len(xs) - 1) : xs[i] < xs[i + 1]

\* the configurations the specification and the script's header allow
ValidConfig ==
    /\ 0 < beta /\ beta < BetaDen
    /\ W_size >= 2 /\ maxiter >= 1 /\ tol_VFI > 0
    /\ StrictlyIncreasing(W_vec)

\* the inputs the specification rejects
InvalidInput ==
    \/ W_size < 2
    \/ ~(0 < beta /\ beta < BetaDen)
    \/ tol_VFI <= 0
    \/ maxiter < 1
    \/ ~StrictlyIncreasing(W_vec)
    \/ (V_next # 0 /\ Len(heap[V_next]) # Len(W_vec))

\* the two outcomes of the fixed-point driver: the cap counts as reached
\* without convergence whenever dist < tol_VFI does not hold
Converged == Lt(dist, Fin(tol_VFI))
MaxIterExceeded == iter_VFI = maxiter /\ ~Converged

\* the indices the running sweep has stored
Stored == {i \in DOMAIN W_vec : \A k \in DOMAIN todo : todo[k] # i}

\* C1: with maxiter >= 1 and tol_VFI > 0 the counter never exceeds maxiter
\* and the run always ends, whatever distances the sweeps produce.
C1_TerminatesWithinMaxIter ==
    /\ [](maxiter >= 1 /\ tol_VFI > 0 => iter_VFI <= maxiter)
    /\ ((maxiter >= 1 /\ tol_VFI > 0) ~> Terminated)

\* the cap ends a run that has not converged
C1_Witness ==
    /\ pc = "done" /\ maxiter >= 2 /\ tol_VFI > 0
    /\ iter_VFI = maxiter /\ IsFin(dist) /\ Ge(dist, Fin(tol_VFI))

\* C2 (as claimed): at the end of the run the outcome is Converged
\* (dist < tol_VFI) or MaxIterExceeded (iter_VFI = maxiter without
\* convergence), and V is the V_cur of the last sweep.
C2_TerminalOutcome ==
    pc = "done" =>
        /\ Converged \/ MaxIterExceeded
        /\ heap[V] = heap[V_cur]

\* C3 (as claimed): a search that does not report convergence makes the
\* operator fail with OptimizationFailureError, and the run is aborted.
C3_FailurePropagates ==
    (results_W_pr # <<>> /\ ~results_W_pr[1].success) =>
        (pc = "error" /\ err = "OptimizationFailureError")

\* C4 (as claimed): on invalid input no sweep is ever started.
C4_InvalidInputRejected == InvalidInput => iter_VFI = 0

\* C5 (as claimed): after a sweep, every policy value the search returned
\* within the bounds it was given satisfies 0 < policy[i] < grid[i].
C5_PolicyFeasible ==
    (pc \in {"loop", "done"} /\ V_cur # 0) =>
        \A i \in DOMAIN W_vec :
            (W_lb_of(W_vec[i]) <= W_prime[i] /\ W_prime[i] <= W_ub_of(W_vec[i]))
                => (0 < W_prime[i] /\ W_prime[i] < W_vec[i])

\* C6: every value vector and the policy vector have as many elements as
\* the grid, and element i of the pair a sweep has stored is the value of
\* the objective for grid point i at policy[i].
C6_VectorsAligned ==
    /\ \A r \in DOMAIN heap : Len(heap[r]) = Len(W_vec)
    /\ V_cur # 0 => Len(W_prime) = Len(W_vec)
    /\ pc = "sweep" =>
          \A i \in Stored :
             /\ heap[V_cur][i] =
                   Neg(FunAt(W_prime[i], beta, W_vec[i], W_vec, heap[V_next]))
             /\ \E r \in MinimizeResults(beta, W_vec[i], W_vec, heap[V_next]) :
                   r.x = W_prime[i]

\* a second sweep over a grid of three points has stored all of them
C6_Witness ==
    /\ pc = "sweep" /\ todo = <<>> /\ iter_VFI = 2 /\ Len(W_vec) = 3
    /\ heap[V_cur] # heap[V_next]

\* C7: whatever the order of the passes of one sweep, V_cur is what the
\* passes in the order of range(W_size) produce from the same input and
\* the same search results.
C7_OrderIndependent ==
    (pc = "sweep" /\ todo = <<>> /\ results_W_pr = <<>>) =>
        heap[V_cur] = get_V_cur(heap[V], W_prime, beta, W_vec)

\* a sweep of three points that ended with another index than the last,
\* on an input that is not constant
C7_Witness ==
    /\ pc = "sweep" /\ todo = <<>> /\ results_W_pr = <<>>
    /\ Len(W_vec) = 3 /\ ind = 1
    /\ heap[V][1] # heap[V][2]
    /\ heap[V_cur] # heap[V]

\* C8 (as claimed): with a valid configuration the loop body runs at least
\* once, so that V_cur is bound when the run reads it.
C8_BodyRunsOnce ==
    (ValidConfig /\ Terminated) => (iter_VFI >= 1 /\ err # "NameError")

\* sum over i of (vc[i] - vn[i])^2
RECURSIVE SumSqDiff(_, _, _)
SumSqDiff(vc, vn, n) ==
    IF n = 0 THEN Fin(0)
    ELSE LET d == Add(vc[n], Neg(vn[n]))
         IN  Add(SumSqDiff(vc, vn, n - 1), Mul(d, d))

\* C9: the loop body adds one to the counter before the sweep, the sweep
\* leaves counter, dist and V_next alone, and at its end dist is the sum
\* of squared differences of V_cur and the V_next the sweep read, after
\* which V_next is V_cur.
C9_LoopBody ==
    [][ /\ (pc = "loop" /\ pc' = "sweep") =>
              /\ iter_VFI' = iter_VFI + 1 /\ dist' = dist
              /\ heap'[V_next'] = heap[V_next]
        /\ (pc = "sweep" /\ pc' # "loop") =>
              /\ iter_VFI' = iter_VFI /\ dist' = dist
              /\ heap'[V_next'] = heap[V_next]
        /\ (pc = "sweep" /\ pc' = "loop") =>
              /\ iter_VFI' = iter_VFI
              /\ dist' = SumSqDiff(heap[V_cur], heap[V_next], Len(W_vec))
              /\ heap'[V_next'] = heap[V_cur]
              /\ heap'[V_cur'] = heap[V_cur]
      ]_vars

\* the second sweep has returned with a positive finite distance
C9_Witness ==
    /\ pc = "loop" /\ iter_VFI = 2 /\ IsFin(dist) /\ dist.v > 0
    /\ Len(W_vec) = 3

\* C10: a sweep leaves the grid and the vector V_next refers to as they
\* are, V_cur is a new object when the sweep starts, and V_next changes
\* only when the sweep has returned, to the whole of V_cur.
C10_InputsUnchanged ==
    [][ /\ W_vec' = W_vec
        /\ (pc = "loop" /\ pc' = "sweep") =>
              /\ V_cur' \notin DOMAIN heap /\ V_cur' # V_next'
              /\ heap'[V_cur'] = [i \in 1..Len(W_vec) |-> Fin(0)]
        /\ (pc = "sweep" /\ pc' = "loop") =>
              heap'[V_next'] = heap[V_cur]
        /\ ~(pc = "sweep" /\ pc' = "loop") =>
              (V_next' = V_next /\ heap'[V_next] = heap[V_next])
      ]_vars

\* a pass of the second sweep has stored a value that differs from the
\* input's
C10_Witness ==
    /\ pc = "sweep" /\ iter_VFI = 2 /\ ind >= 1 /\ ind \in Stored
    /\ heap[V_cur][ind] # heap[V_next][ind]

=============================================================================
